---- MODULE Spec2Model ----
(***************************************************************************)
(* Model of .github/scripts/slack_pr_notify.py: the link detectors, the    *)
(* enrichers, the GIBS imagery resolver, the Slack block assembly and the  *)
(* final chat.postMessage delivery.                                        *)
(*                                                                         *)
(* The haystack is a sequence of whitespace-separated tokens.  A token is  *)
(* [k, ref, params]: k is the link family whose pattern matches it         *)
(* ("word" when none does), ref its URL / identifier text, params the      *)
(* structure the code later parses out of it (query parameters of an       *)
(* Earthdata URL, the pieces str.split("/details/") yields for a NASA      *)
(* URL).  Every string-valued datum is a string or a sequence of strings.  *)
(***************************************************************************)
EXTENDS Integers, Sequences, FiniteSets, TLC

VARIABLES
    pc,                 \* position in the script
    trace,              \* site of the uncaught exception ("" while none)
    exit_code,          \* process exit status (-1 while running)
    env,                \* GIBS_* environment configuration
    haystack,           \* title + "\n\n" + body, as tokens
    sc_match, odesli_url, platforms,
    nasa_match, nasa_card,
    yt_match,
    cmr_ids_from_urls, cmr_ids_in_text, cmr_all_ids,
    cmr_i,              \* index of the for loop over cmr_all_ids[:5]
    earthdata_blocks,
    lookups,            \* the calls of cmr_concept_lookup: [id, ok], ok when the
                        \* API answered with a concept record
    blocks,
    region,             \* which call of try_gibs_image is running
    layers, date_candidates, li, di,
    r,                  \* last response obtained inside try_gibs_image
    calls,              \* exchanges with the tile service for the current
                        \* (layer, date) pair: [method, status, image]
    visited,            \* (layer, date) pairs visited by the current call
    ret,                \* value returned by the current call
    gibs_url, gibs_label, gibs_url2, gibs_label2,
    posts,              \* number of POSTs to chat.postMessage
    resp                \* what post_json returned

vars == <<pc, trace, exit_code, env, haystack, sc_match, odesli_url, platforms,
          nasa_match, nasa_card, yt_match, cmr_ids_from_urls, cmr_ids_in_text,
          cmr_all_ids, cmr_i, earthdata_blocks, lookups, blocks, region, layers,
          date_candidates, li, di, r, calls, visited, ret, gibs_url, gibs_label,
          gibs_url2, gibs_label2, posts, resp>>

\* ------------------------------------------------------------------ bounds
\* longest haystack (in tokens) of the whole-script specification
MaxTokens == 4
\* longest haystack (in tokens) of the geo-catalog specification
MaxGeoTokens == 3

\* ------------------------------------------------------------- Python bits
None == "None"

Min(a, b) == IF a < b THEN a ELSE b

Range(s) == {s[i] : i \in DOMAIN s}

RECURSIVE Concat(_)
\* list.extend over a list of lists
Concat(ss) == IF ss = <<>> THEN <<>> ELSE Head(ss) \o Concat(Tail(ss))

\* an HTTP exchange: status "ok" (2xx/3xx), "fail" (r.ok false) or "raise"
\* (requests raised); json says whether r.json() parses the body
HttpStatus == {"ok", "fail", "raise"}

\* fetch_json: the parsed body on r.ok, None on a bad status or any exception
FetchJson(rsp, none) ==
    IF rsp.status = "raise" THEN none
    ELSE IF rsp.status = "ok"
         THEN IF rsp.json THEN rsp.body ELSE none
         ELSE none

\* ----------------------------------------------------------- the haystack
\* text matched by CMR_ID_REGEX
CAtoms == {"C100-A", "C300-C", "C500-E"}
GAtoms == {"G200-B", "G400-D", "G600-F"}
IdAtoms == CAtoms \cup GAtoms

Word == [k |-> "word", ref |-> "lorem", params |-> <<>>]
ScTok == [k |-> "sc", ref |-> "https://soundcloud.com/artist/track", params |-> <<>>]
YtTok == [k |-> "yt", ref |-> "https://youtu.be/v1", params |-> <<>>]
\* params of a NASA token: the pieces of nasa_url.split("/details/")
NasaTok(pieces) == [k |-> "nasa", ref |-> "https://images.nasa.gov/details/..", params |-> pieces]
\* params of an Earthdata token: the query string, one <<key, value pieces>> each;
\* a value is its "!"-separated pieces
EdTok(query) == [k |-> "ed", ref |-> "https://search.earthdata.nasa.gov/search", params |-> query]
IdTok(a) == [k |-> "id", ref |-> a, params |-> <<>>]

\* ------------------------------------------------------- regex detectors
RECURSIVE FirstOfKind(_, _)
\* REGEX.search(haystack): the first match of one family, or None
FirstOfKind(h, kind) ==
    IF h = <<>> THEN <<>>
    ELSE IF Head(h).k = kind THEN <<Head(h)>>
    ELSE FirstOfKind(Tail(h), kind)

\* EARTHDATA_URL.findall(haystack)
EarthdataUrls(h) == SelectSeq(h, LAMBDA t : t.k = "ed")

\* CMR_ID_REGEX.match(v): a match at the START of the parameter value
CmrIdMatch(v) == Len(v) > 0 /\ Head(v) \in IdAtoms

\* CMR_ID_REGEX.findall over one token's text: a plain identifier, or every
\* identifier written inside an Earthdata URL, in textual order
TokenIds(t) ==
    IF t.k = "id" THEN <<<<t.ref>>>>
    ELSE IF t.k = "ed"
         THEN Concat([i \in DOMAIN t.params |->
                 LET atoms == SelectSeq(Tail(t.params[i]), LAMBDA a : a \in IdAtoms)
                 IN  [j \in DOMAIN atoms |-> <<atoms[j]>>]])
         ELSE <<>>

\* CMR_ID_REGEX.findall(haystack)
CmrIdsInText(h) == Concat([i \in DOMAIN h |-> TokenIds(h[i])])

\* ------------------------------------------- extract_cmr_ids_from_earthdata_url
\* qs.get(key, []): the values of one key, in order of appearance
QsGet(query, key) ==
    LET sel == SelectSeq(query, LAMBDA p : Head(p) = key)
    IN  [i \in DOMAIN sel |-> Tail(sel[i])]

RECURSIVE QsKeysFrom(_, _)
\* the keys of parse_qs's dict, in insertion order
QsKeysFrom(query, got) ==
    IF query = <<>> THEN got
    ELSE IF Head(Head(query)) \in Range(got) THEN QsKeysFrom(Tail(query), got)
    ELSE QsKeysFrom(Tail(query), Append(got, Head(Head(query))))

QsKeys(query) == QsKeysFrom(query, <<>>)

\* k.startswith("pg") and "[g]" in k
PgKeys == {"pg[0][g]", "pg[1][g]"}

IsPgKey(k) == k \in PgKeys

\* line 119: if cid not in seen
UrlNotSeen(cid, seen) == cid \notin seen

RECURSIVE UniqueFrom(_, _, _)
\* lines 116-122: de-duplicate, preserve order
UniqueFrom(ids, seen, unique) ==
    IF ids = <<>> THEN unique
    ELSE IF UrlNotSeen(Head(ids), seen)
         THEN UniqueFrom(Tail(ids), seen \cup {Head(ids)}, Append(unique, Head(ids)))
         ELSE UniqueFrom(Tail(ids), seen, unique)

\* lines 103-112: the matching values of p, then of g, then of the pg..[g] keys
RawUrlIds(query) ==
    LET direct == SelectSeq(QsGet(query, "p") \o QsGet(query, "g"), CmrIdMatch)
        keys   == SelectSeq(QsKeys(query), IsPgKey)
        nested == Concat([i \in DOMAIN keys |->
                             SelectSeq(QsGet(query, keys[i]), CmrIdMatch)])
    IN  direct \o nested

extract_cmr_ids_from_earthdata_url(u) == UniqueFrom(RawUrlIds(u.params), {}, <<>>)

\* lines 286-289
CmrIdsFromUrls(h) ==
    LET us == EarthdataUrls(h)
    IN  Concat([i \in DOMAIN us |-> extract_cmr_ids_from_earthdata_url(us[i])])

\* line 294: cmr_ids_from_urls + cmr_ids_in_text
MergeOrder(fromUrls, inText) == fromUrls \o inText

\* the membership test dropped
MergeNotSeenMutant(cid, seen_ids) == TRUE

\* line 295: if cid not in seen_ids
MergeNotSeen(cid, seen_ids) == cid \notin seen_ids

RECURSIVE MergeFrom(_, _, _)
\* lines 292-297
MergeFrom(ids, seen_ids, all) ==
    IF ids = <<>> THEN all
    ELSE IF MergeNotSeen(Head(ids), seen_ids)
         THEN MergeFrom(Tail(ids), seen_ids \cup {Head(ids)}, Append(all, Head(ids)))
         ELSE MergeFrom(Tail(ids), seen_ids, all)

\* ------------------------------------------------------ geo-catalog cards
\* the slice dropped
EnrichAllMutant(ids) == ids

\* line 300: cmr_all_ids[:5]
EnrichSlice(ids) == SubSeq(ids, 1, Min(5, Len(ids)))

\* bodies the concept lookup can answer with (JSON text already parsed)
CmrBodies == {"collection", "granule", "otherobj", "emptyobj", "list"}

CmrResponses ==
    {[status |-> "raise", json |-> FALSE, body |-> None],
     [status |-> "fail", json |-> TRUE, body |-> None],
     [status |-> "ok", json |-> FALSE, body |-> None]}
    \cup [status : {"ok"}, json : {TRUE}, body : CmrBodies]

\* cmr_concept_lookup
cmr_concept_lookup(rsp) == FetchJson(rsp, None)

\* the API answered 2xx with a JSON object that is not empty
ConceptFound(rsp) ==
    rsp.status = "ok" /\ rsp.json /\ rsp.body \in {"collection", "granule", "otherobj"}

\* line 302: if not cj
CjFalsy(cj) == cj \in {None, "emptyobj"}

\* build_earthdata_card raises (concept_json.get on a non-dict)
CardRaises(cj) == cj = "list"

\* build_earthdata_card: the section for one concept; the deep link uses p=
\* for an identifier that starts with "C" and g= otherwise
build_earthdata_card(cid, cj) ==
    [type |-> "section", grp |-> "earthdata",
     ref |-> cid \o <<IF Head(cid) \in CAtoms THEN "p" ELSE "g">>]

\* break in place of continue
SkipBreakMutant(i, n) == n + 1

\* lines 302-303, 306-307: continue / fall through to the next identifier
AfterSkip(i, n) == i + 1

\* ------------------------------------------------------------ Slack blocks
Divider == [type |-> "divider", grp |-> "divider", ref |-> <<>>]

\* lines 336-342
HeaderBlock == [type |-> "section", grp |-> "header", ref |-> <<>>]

\* line 424
ClosingBlock == [type |-> "section", grp |-> "closing", ref |-> <<>>]

\* ------------------------------------------------- 1) SoundCloud -> Odesli
SongLink == "https://song.link/x"

\* linksByPlatform entries <<name, meta>>: meta "url" is a dict with a url,
\* "nourl" a dict without one, "str" a value that is no dict
OdesliLinks ==
    {<<>>, <<<<"spotify", "url">>>>, <<<<"spotify", "nourl">>>>, <<<<"spotify", "str">>>>,
     <<<<"youtube", "nourl">>, <<"spotify", "url">>>>}

OdesliNone == [t |-> None, pageUrl |-> None, linksKind |-> "missing", links |-> <<>>]

\* parsed bodies of the link-resolution API: t is the JSON value's type
\* ("emptyobj" is {}), linksKind the type of linksByPlatform
OdesliBodies ==
    {[OdesliNone EXCEPT !.t = "emptyobj"], [OdesliNone EXCEPT !.t = "list"]}
    \cup [t : {"dict"}, pageUrl : {None, SongLink}, linksKind : {"missing", "list"},
          links : {<<>>}]
    \cup [t : {"dict"}, pageUrl : {None, SongLink}, linksKind : {"dict"},
          links : OdesliLinks]

\* the exchanges of one requests.get: an exception, a bad status, a body
\* that is no JSON, or a JSON body
JsonResponses(bodies, none) ==
    {[status |-> "raise", json |-> FALSE, body |-> none],
     [status |-> "fail", json |-> TRUE, body |-> none],
     [status |-> "ok", json |-> FALSE, body |-> none]}
    \cup [status : {"ok"}, json : {TRUE}, body : bodies]

OdesliResponses == JsonResponses(OdesliBodies, OdesliNone)

\* line 232: if data
OdesliTruthy(data) == data.t \in {"dict", "list"}

\* lines 233-235 raise AttributeError: data.get on a list, .items() on a
\* linksByPlatform that is no dict, meta.get on a meta that is no dict
OdesliRaises(data) ==
    \/ data.t = "list"
    \/ data.linksKind = "list"
    \/ data.linksKind = "dict" /\ \E i \in DOMAIN data.links : data.links[i][2] = "str"

\* lines 234-237
OdesliPlatforms(data) ==
    IF data.linksKind = "dict"
    THEN LET withUrl == SelectSeq(data.links, LAMBDA e : e[2] = "url")
         IN  [i \in DOMAIN withUrl |-> withUrl[i][1]]
    ELSE <<>>

\* lines 224-237
Odesli ==
    /\ pc = "odesli"
    /\ sc_match' = FirstOfKind(haystack, "sc")
    /\ IF sc_match' = <<>>
       THEN /\ pc' = "nasa"
            /\ UNCHANGED <<odesli_url, platforms, trace, exit_code>>
       ELSE \E rsp \in OdesliResponses :
              LET data == FetchJson(rsp, OdesliNone) IN
              IF ~OdesliTruthy(data)
              THEN /\ pc' = "nasa"
                   /\ UNCHANGED <<odesli_url, platforms, trace, exit_code>>
              ELSE IF OdesliRaises(data)
              THEN /\ pc' = "crashed"
                   /\ trace' = "odesli"
                   /\ exit_code' = 1
                   /\ UNCHANGED <<odesli_url, platforms>>
              ELSE /\ pc' = "nasa"
                   /\ odesli_url' = data.pageUrl
                   /\ platforms' = OdesliPlatforms(data)
                   /\ UNCHANGED <<trace, exit_code>>
    /\ UNCHANGED <<env, haystack, nasa_match, nasa_card, yt_match, cmr_ids_from_urls,
                   cmr_ids_in_text, cmr_all_ids, cmr_i, earthdata_blocks, lookups,
                   blocks, region, layers, date_candidates, li, di, r, calls, visited,
                   ret, gibs_url, gibs_label, gibs_url2, gibs_label2, posts, resp>>

\* ------------------------------------------- 2) images.nasa.gov details card
\* lines 246-250: nasa_url.split("/details/")[1], None on IndexError
MediaId(m) == IF Len(m.params) >= 2 THEN m.params[2] ELSE None

\* line 252: if media_id
MediaIdTruthy(id) == id \notin {None, ""}

OtherLink == [t |-> "dict", rel |-> "captions", render |-> "text", href |-> "https://a/c.srt"]
PreviewLink == [t |-> "dict", rel |-> "preview", render |-> "text", href |-> "https://a/p.jpg"]
RenderLink == [t |-> "dict", rel |-> "alt", render |-> "image", href |-> "https://a/r.jpg"]
NoHrefLink == [t |-> "dict", rel |-> "preview", render |-> "image", href |-> None]
StrLink == [t |-> "str", rel |-> None, render |-> None, href |-> None]

NasaLinks ==
    {<<>>, <<OtherLink>>, <<OtherLink, PreviewLink>>, <<RenderLink, PreviewLink>>,
     <<NoHrefLink, PreviewLink>>, <<StrLink>>, <<PreviewLink, StrLink>>}

NasaNone ==
    [t |-> None, itemsKind |-> "missing", item |-> "emptyobj", data |-> "missing",
     links |-> <<>>]

\* parsed bodies of the image-search API: t the type of the JSON value,
\* itemsKind that of collection.items, item that of items[0], data that of
\* item.data ("list:dict" a list whose first element is a dict, ...)
NasaBodies ==
    {[NasaNone EXCEPT !.t = "list"]}
    \cup [t : {"dict"}, itemsKind : {"missing", "dict", "str"}, item : {"emptyobj"},
          data : {"missing"}, links : {<<>>}]
    \cup [t : {"dict"}, itemsKind : {"list"}, item : {"emptyobj", "str"},
          data : {"missing"}, links : {<<>>}]
    \cup [t : {"dict"}, itemsKind : {"list"}, item : {"dict"},
          data : {"missing", "list:dict", "list:str", "dict"}, links : NasaLinks]

NasaResponses == JsonResponses(NasaBodies, NasaNone)

\* lines 255-258: the first item, None when there is none (IndexError, KeyError);
\* the first character when items is a string
NasaItem(nasa_json) ==
    IF nasa_json.t = "dict" /\ nasa_json.itemsKind = "list" THEN nasa_json.item
    ELSE IF nasa_json.t = "dict" /\ nasa_json.itemsKind = "str" THEN "str"
    ELSE None

\* line 260: if item
ItemTruthy(item) == item \in {"dict", "str"}

RECURSIVE LinksRaise(_)
\* the loop of lines 264-267 reaches a link that is no dict
LinksRaise(links) ==
    IF links = <<>> THEN FALSE
    ELSE IF Head(links).t = "str" THEN TRUE
    ELSE IF Head(links).rel = "preview" \/ Head(links).render = "image" THEN FALSE
    ELSE LinksRaise(Tail(links))

\* lines 261-276 raise: item.get on a string, (dict)[0], l.get or meta.get on
\* a string
NasaRaises(item, nasa_json) ==
    \/ item = "str"
    \/ nasa_json.data \in {"dict", "list:str"}
    \/ LinksRaise(nasa_json.links)

RECURSIVE Thumb(_)
\* lines 263-267: href of the first link with rel "preview" or render "image"
Thumb(links) ==
    IF links = <<>> THEN None
    ELSE IF Head(links).rel = "preview" \/ Head(links).render = "image"
         THEN Head(links).href
         ELSE Thumb(Tail(links))

NoCard == [some |-> FALSE, thumb |-> None]

\* lines 242-276
NasaCard ==
    /\ pc = "nasa"
    /\ nasa_match' = FirstOfKind(haystack, "nasa")
    /\ IF nasa_match' = <<>> \/ ~MediaIdTruthy(MediaId(nasa_match'[1]))
       THEN /\ pc' = "youtube"
            /\ UNCHANGED <<nasa_card, trace, exit_code>>
       ELSE \E rsp \in NasaResponses :
              LET nasa_json == FetchJson(rsp, NasaNone)
                  item == NasaItem(nasa_json)
              IN
              IF ~ItemTruthy(item)
              THEN /\ pc' = "youtube"
                   /\ UNCHANGED <<nasa_card, trace, exit_code>>
              ELSE IF NasaRaises(item, nasa_json)
              THEN /\ pc' = "crashed"
                   /\ trace' = "nasa"
                   /\ exit_code' = 1
                   /\ UNCHANGED nasa_card
              ELSE /\ pc' = "youtube"
                   /\ nasa_card' = [some |-> TRUE, thumb |-> Thumb(nasa_json.links)]
                   /\ UNCHANGED <<trace, exit_code>>
    /\ UNCHANGED <<env, haystack, sc_match, odesli_url, platforms, yt_match,
                   cmr_ids_from_urls, cmr_ids_in_text, cmr_all_ids, cmr_i,
                   earthdata_blocks, lookups, blocks, region, layers, date_candidates,
                   li, di, r, calls, visited, ret, gibs_url, gibs_label, gibs_url2,
                   gibs_label2, posts, resp>>

\* ------------------------------------------------------------- 3) YouTube
\* line 281
YouTube ==
    /\ pc = "youtube"
    /\ yt_match' = FirstOfKind(haystack, "yt")
    /\ pc' = "cmr"
    /\ UNCHANGED <<trace, exit_code, env, haystack, sc_match, odesli_url, platforms,
                   nasa_match, nasa_card, cmr_ids_from_urls, cmr_ids_in_text,
                   cmr_all_ids, cmr_i, earthdata_blocks, lookups, blocks, region, layers,
                   date_candidates, li, di, r, calls, visited, ret, gibs_url, gibs_label,
                   gibs_url2, gibs_label2, posts, resp>>

\* --------------------------------------------------- 4) Earthdata / CMR ids
\* lines 286-299
CmrExtract ==
    /\ pc = "cmr"
    /\ cmr_ids_from_urls' = CmrIdsFromUrls(haystack)
    /\ cmr_ids_in_text' = CmrIdsInText(haystack)
    /\ cmr_all_ids' = MergeFrom(MergeOrder(cmr_ids_from_urls', cmr_ids_in_text'), {}, <<>>)
    /\ earthdata_blocks' = <<>>
    /\ cmr_i' = 1
    /\ pc' = IF EnrichSlice(cmr_all_ids') = <<>> THEN "build" ELSE "cmr_loop"
    /\ UNCHANGED <<trace, exit_code, env, haystack, sc_match, odesli_url, platforms,
                   nasa_match, nasa_card, yt_match, lookups, blocks, region, layers,
                   date_candidates, li, di, r, calls, visited, ret, gibs_url, gibs_label,
                   gibs_url2, gibs_label2, posts, resp>>

\* lines 300-307: one iteration of the loop
CmrLookup ==
    /\ pc = "cmr_loop"
    /\ \E rsp \in CmrResponses :
         LET todo == EnrichSlice(cmr_all_ids)
             cid == todo[cmr_i]
             cj == cmr_concept_lookup(rsp)
             next == IF CjFalsy(cj) \/ CardRaises(cj)
                     THEN AfterSkip(cmr_i, Len(todo))
                     ELSE cmr_i + 1
         IN  /\ lookups' = Append(lookups, [id |-> cid, ok |-> ConceptFound(rsp)])
             /\ earthdata_blocks' =
                  IF CjFalsy(cj) \/ CardRaises(cj) THEN earthdata_blocks
                  ELSE Append(earthdata_blocks, build_earthdata_card(cid, cj))
             /\ cmr_i' = next
             /\ pc' = IF next > Len(todo) THEN "build" ELSE "cmr_loop"
    /\ UNCHANGED <<trace, exit_code, env, haystack, sc_match, odesli_url, platforms,
                   nasa_match, nasa_card, yt_match, cmr_ids_from_urls, cmr_ids_in_text,
                   cmr_all_ids, blocks, region, layers, date_candidates, li, di, r,
                   calls, visited, ret, gibs_url, gibs_label, gibs_url2, gibs_label2,
                   posts, resp>>

\* ------------------------------------------------- 6) Build Slack blocks
\* lines 344-352
MediaGroup(m, url, plats) ==
    IF m = <<>> THEN <<>>
    ELSE <<Divider,
           [type |-> "section", grp |-> "media",
            ref |-> <<m[1].ref, IF url = None THEN "_Songlink could not be resolved_" ELSE url>>]>>
         \o (IF plats # <<>>
             THEN <<[type |-> "section", grp |-> "platforms", ref |-> plats]>>
             ELSE <<>>)

\* lines 354-378: the thumbnail is an accessory of the section when there is one
NasaGroup(card) ==
    IF ~card.some THEN <<>>
    ELSE <<Divider,
           [type |-> "section", grp |-> "nasa",
            ref |-> IF card.thumb # None THEN <<"accessory", card.thumb>> ELSE <<>>]>>

\* the divider appended outside the if
YouTubeDividerMutant(m) ==
    <<Divider>> \o (IF m = <<>> THEN <<>>
                    ELSE <<[type |-> "section", grp |-> "youtube", ref |-> <<m[1].ref>>]>>)

\* lines 380-382
YouTubeGroup(m) ==
    IF m = <<>> THEN <<>>
    ELSE <<Divider, [type |-> "section", grp |-> "youtube", ref |-> <<m[1].ref>>]>>

\* the group appended whether or not there is a card
EarthdataAlwaysMutant(eb) == <<Divider>> \o eb

\* lines 384-386
EarthdataGroup(eb) == IF eb # <<>> THEN <<Divider>> \o eb ELSE <<>>

\* lines 336-386
BuildBlocks ==
    /\ pc = "build"
    /\ blocks' = <<HeaderBlock>> \o MediaGroup(sc_match, odesli_url, platforms)
                    \o NasaGroup(nasa_card) \o YouTubeGroup(yt_match)
                    \o EarthdataGroup(earthdata_blocks)
    /\ pc' = "gibs_world"
    /\ UNCHANGED <<trace, exit_code, env, haystack, sc_match, odesli_url, platforms,
                   nasa_match, nasa_card, yt_match, cmr_ids_from_urls, cmr_ids_in_text,
                   cmr_all_ids, cmr_i, earthdata_blocks, lookups, region, layers,
                   date_candidates, li, di, r, calls, visited, ret, gibs_url, gibs_label,
                   gibs_url2, gibs_label2, posts, resp>>

\* ------------------------------------------------------------ GIBS helpers
\* lines 45-50
GIBS_TRUECOLOR_CANDIDATES ==
    <<"MODIS_Terra_CorrectedReflectance_TrueColor",
      "MODIS_Aqua_CorrectedReflectance_TrueColor",
      "VIIRS_SNPP_CorrectedReflectance_TrueColor",
      "VIIRS_NOAA20_CorrectedReflectance_TrueColor">>

\* line 23
GIBS_BBOX == "-180,-90,180,90"

\* line 189: today, yesterday, the day before
DefaultDates == <<"today", "today-1", "today-2">>

\* size.split(","), for GIBS_SIZE and GIBS_SECONDARY_SIZE
WorldSizes == {<<"2048", "1024">>, <<"2048">>}
RegionSizes == {<<"1536", "1024">>, <<"1536">>}

\* lines 21-28
Envs ==
    [GIBS_LAYER : {None, "MODIS_Terra_SurfaceReflectance_Bands143"},
     GIBS_DATE : {None, "2025-08-25"},
     GIBS_SIZE : WorldSizes,
     GIBS_SECONDARY_BBOX : {None, "166,-47,172,-41"},
     GIBS_SECONDARY_SIZE : RegionSizes]

\* line 166: w, h = [...] raises ValueError unless size has two parts
SizeRaises(size) == Len(size) # 2

\* gibs_wms_url: the request is determined by layer, time, bbox, width, height
gibs_wms_url(layer, date_str, bbox, size) == <<layer, date_str, bbox, size[1], size[2]>>

\* line 200: f"{lyr} ({d})"
Label(lyr, d) == <<lyr, "(", d, ")">>

\* line 184
Layers(e) == IF e.GIBS_LAYER # None THEN <<e.GIBS_LAYER>> ELSE GIBS_TRUECOLOR_CANDIDATES

\* lines 185-189
DateCandidates(e) == IF e.GIBS_DATE # None THEN <<e.GIBS_DATE>> ELSE DefaultDates

\* a tile-service exchange: a response whose image field says whether
\* "image" is in its Content-Type, or an exception raised by requests
ImgResponses ==
    [status : {"ok", "fail"}, image : BOOLEAN] \cup {[status |-> "raise", image |-> FALSE]}

NoResponse == [status |-> None, image |-> FALSE]

\* requests.head / requests.get on the request URL, and what came back
Exchange(method, x) == [method |-> method, status |-> x.status, image |-> x.image]

\* the content type of the HEAD response ignored
NeedGetStatusOnlyMutant(h) == h.status # "ok"

\* line 197: if not r.ok or "image" not in Content-Type
NeedGet(h) == h.status # "ok" \/ ~h.image

\* line 199: if r.ok and "image" in Content-Type
Accepted(x) == x.status = "ok" /\ x.image

\* the two loops swapped
DateMajorMutant(l, d, nl, nd) ==
    IF l < nl THEN <<l + 1, d>> ELSE IF d < nd THEN <<1, d + 1>> ELSE <<>>

\* lines 190, 193: the next iteration of the nested loops, <<>> past the last
NextPair(l, d, nl, nd) ==
    IF d < nd THEN <<l, d + 1>> ELSE IF l < nl THEN <<l + 1, 1>> ELSE <<>>

BBoxOf(reg) == IF reg = "world" THEN GIBS_BBOX ELSE env.GIBS_SECONDARY_BBOX

SizeOf(reg) == IF reg = "world" THEN env.GIBS_SIZE ELSE env.GIBS_SECONDARY_SIZE

AfterCall(reg) == IF reg = "world" THEN "world_blocks" ELSE "regional_blocks"

\* lines 184-189: entering try_gibs_image for one region
Enter(reg) ==
    /\ region' = reg
    /\ layers' = Layers(env)
    /\ date_candidates' = DateCandidates(env)
    /\ li' = 1
    /\ di' = 1
    /\ r' = NoResponse
    /\ calls' = <<>>
    /\ visited' = <<>>
    /\ ret' = <<>>
    /\ pc' = "head"

\* continue with the next pair, or fall out of the loops to line 203;
\* (None, None) is <<>>
Continue ==
    LET nxt == NextPair(li, di, Len(layers), Len(date_candidates)) IN
    IF nxt = <<>>
    THEN /\ ret' = <<>>
         /\ pc' = AfterCall(region)
         /\ UNCHANGED <<li, di>>
    ELSE /\ li' = nxt[1]
         /\ di' = nxt[2]
         /\ pc' = "head"
         /\ UNCHANGED ret

\* line 200
Return(url) ==
    /\ ret' = <<url, Label(layers[li], date_candidates[di])>>
    /\ pc' = AfterCall(region)
    /\ UNCHANGED <<li, di>>

\* line 389: the call for the world region
WorldCall ==
    /\ pc = "gibs_world"
    /\ Enter("world")
    /\ UNCHANGED <<trace, exit_code, env, haystack, sc_match, odesli_url, platforms,
                   nasa_match, nasa_card, yt_match, cmr_ids_from_urls, cmr_ids_in_text,
                   cmr_all_ids, cmr_i, earthdata_blocks, lookups, blocks, gibs_url,
                   gibs_label, gibs_url2, gibs_label2, posts, resp>>

\* lines 194-197, 199-202: build the URL and issue the HEAD probe
Head_ ==
    /\ pc = "head"
    /\ IF SizeRaises(SizeOf(region))
       THEN /\ pc' = "crashed"
            /\ trace' = "gibs_wms_url"
            /\ exit_code' = 1
            /\ UNCHANGED <<li, di, r, calls, visited, ret>>
       ELSE /\ visited' = Append(visited, <<layers[li], date_candidates[di]>>)
            /\ UNCHANGED <<trace, exit_code>>
            /\ \E h \in ImgResponses :
                 /\ calls' = <<Exchange("HEAD", h)>>
                 /\ r' = IF h.status = "raise" THEN r ELSE h
                 /\ IF h.status = "raise" THEN Continue
                    ELSE IF NeedGet(h)
                    THEN pc' = "get" /\ UNCHANGED <<li, di, ret>>
                    ELSE IF Accepted(h)
                    THEN Return(gibs_wms_url(layers[li], date_candidates[di],
                                             BBoxOf(region), SizeOf(region)))
                    ELSE Continue
    /\ UNCHANGED <<env, haystack, sc_match, odesli_url, platforms, nasa_match,
                   nasa_card, yt_match, cmr_ids_from_urls, cmr_ids_in_text, cmr_all_ids,
                   cmr_i, earthdata_blocks, lookups, blocks, region, layers,
                   date_candidates, gibs_url, gibs_label, gibs_url2, gibs_label2, posts,
                   resp>>

\* lines 198-202: the GET that follows an inconclusive HEAD
Get_ ==
    /\ pc = "get"
    /\ \E g \in ImgResponses :
         /\ calls' = Append(calls, Exchange("GET", g))
         /\ r' = IF g.status = "raise" THEN r ELSE g
         /\ IF g.status = "raise" THEN Continue
            ELSE IF Accepted(g)
            THEN Return(gibs_wms_url(layers[li], date_candidates[di],
                                     BBoxOf(region), SizeOf(region)))
            ELSE Continue
    /\ UNCHANGED <<trace, exit_code, env, haystack, sc_match, odesli_url, platforms,
                   nasa_match, nasa_card, yt_match, cmr_ids_from_urls, cmr_ids_in_text,
                   cmr_all_ids, cmr_i, earthdata_blocks, lookups, blocks, region, layers,
                   date_candidates, visited, gibs_url, gibs_label, gibs_url2,
                   gibs_label2, posts, resp>>

\* the image block and its caption, lines 391-403 and 409-421
ImageryGroup(reg, url, label, bbox, size) ==
    IF url = <<>> THEN <<>>
    ELSE <<Divider,
           [type |-> "image", grp |-> reg, ref |-> url \o label],
           [type |-> "context", grp |-> reg, ref |-> <<bbox>> \o size]>>

\* the locals of try_gibs_image go out of scope
Leave ==
    /\ layers' = <<>>
    /\ date_candidates' = <<>>
    /\ li' = 0
    /\ di' = 0
    /\ r' = NoResponse
    /\ calls' = <<>>
    /\ visited' = <<>>
    /\ ret' = <<>>

\* lines 389-403
WorldBlocks ==
    /\ pc = "world_blocks"
    /\ gibs_url' = IF ret = <<>> THEN <<>> ELSE ret[1]
    /\ gibs_label' = IF ret = <<>> THEN <<>> ELSE ret[2]
    /\ blocks' = blocks \o ImageryGroup("world", gibs_url', gibs_label', GIBS_BBOX, env.GIBS_SIZE)
    /\ Leave
    /\ pc' = "gibs_regional"
    /\ UNCHANGED <<trace, exit_code, env, haystack, sc_match, odesli_url, platforms,
                   nasa_match, nasa_card, yt_match, cmr_ids_from_urls, cmr_ids_in_text,
                   cmr_all_ids, cmr_i, earthdata_blocks, lookups, region, gibs_url2,
                   gibs_label2, posts, resp>>

\* lines 406-407: the regional call, only with GIBS_SECONDARY_BBOX
RegionalCall ==
    /\ pc = "gibs_regional"
    /\ IF env.GIBS_SECONDARY_BBOX # None
       THEN Enter("regional")
       ELSE /\ pc' = "close"
            /\ UNCHANGED <<region, layers, date_candidates, li, di, r, calls, visited, ret>>
    /\ UNCHANGED <<trace, exit_code, env, haystack, sc_match, odesli_url, platforms,
                   nasa_match, nasa_card, yt_match, cmr_ids_from_urls, cmr_ids_in_text,
                   cmr_all_ids, cmr_i, earthdata_blocks, lookups, blocks, gibs_url,
                   gibs_label, gibs_url2, gibs_label2, posts, resp>>

\* lines 407-421
RegionalBlocks ==
    /\ pc = "regional_blocks"
    /\ gibs_url2' = IF ret = <<>> THEN <<>> ELSE ret[1]
    /\ gibs_label2' = IF ret = <<>> THEN <<>> ELSE ret[2]
    /\ blocks' = blocks \o ImageryGroup("regional", gibs_url2', gibs_label2',
                                        env.GIBS_SECONDARY_BBOX, env.GIBS_SECONDARY_SIZE)
    /\ Leave
    /\ pc' = "close"
    /\ UNCHANGED <<trace, exit_code, env, haystack, sc_match, odesli_url, platforms,
                   nasa_match, nasa_card, yt_match, cmr_ids_from_urls, cmr_ids_in_text,
                   cmr_all_ids, cmr_i, earthdata_blocks, lookups, region, gibs_url,
                   gibs_label, posts, resp>>

\* lines 423-424
Close ==
    /\ pc = "close"
    /\ blocks' = blocks \o <<Divider, ClosingBlock>>
    /\ pc' = "post"
    /\ UNCHANGED <<trace, exit_code, env, haystack, sc_match, odesli_url, platforms,
                   nasa_match, nasa_card, yt_match, cmr_ids_from_urls, cmr_ids_in_text,
                   cmr_all_ids, cmr_i, earthdata_blocks, lookups, region, layers,
                   date_candidates, li, di, r, calls, visited, ret, gibs_url, gibs_label,
                   gibs_url2, gibs_label2, posts, resp>>

\* ------------------------------------------------------- 7) Post to Slack
\* parsed bodies of chat.postMessage: a dict whose "ok" is truthy, falsy or
\* missing, or a JSON value that is no dict
SlackBodies == {"ok:true", "ok:false", "ok:missing", "list"}

SlackResponses ==
    {[status |-> "raise", json |-> FALSE, body |-> None]}
    \cup [status : {"ok", "fail"}, json : {FALSE}, body : {None}]
    \cup [status : {"ok", "fail"}, json : {TRUE}, body : SlackBodies]

\* post_json: the parsed body whatever the status, {"raw": text} when the body
\* is no JSON, {"ok": False, "error": ..} when requests raised
post_json(rsp) ==
    IF rsp.status = "raise" THEN "ok:false"
    ELSE IF rsp.json THEN rsp.body ELSE "ok:missing"

\* line 433: resp.get raises AttributeError on a value that is no dict
RespRaises(x) == x = "list"

\* line 433: ok = bool(resp.get("ok"))
Ok(x) == x = "ok:true"

\* lines 429-438
Post ==
    /\ pc = "post"
    /\ posts' = posts + 1
    /\ \E rsp \in SlackResponses :
         /\ resp' = post_json(rsp)
         /\ IF RespRaises(resp')
            THEN pc' = "crashed" /\ trace' = "resp.get" /\ exit_code' = 1
            ELSE /\ pc' = "done"
                 /\ exit_code' = IF Ok(resp') THEN 0 ELSE 1
                 /\ UNCHANGED trace
    /\ UNCHANGED <<env, haystack, sc_match, odesli_url, platforms, nasa_match,
                   nasa_card, yt_match, cmr_ids_from_urls, cmr_ids_in_text, cmr_all_ids,
                   cmr_i, earthdata_blocks, lookups, blocks, region, layers,
                   date_candidates, li, di, r, calls, visited, ret, gibs_url, gibs_label,
                   gibs_url2, gibs_label2>>

\* ---------------------------------------------------------- specifications
\* the longest PR text of the whole-script specification
FullText ==
    <<Word, ScTok,
      NasaTok(<<"https://images.nasa.gov", "as11-40-5874">>),
      YtTok,
      EdTok(<<<<"p", "C100-A">>>>),
      IdTok("G200-B"),
      NasaTok(<<"https://images.nasa.gov/DETAILS/as11-40-5874">>)>>

\* the tokens of text at the positions in S, in order
Pick(text, S) ==
    LET idx == SelectSeq([i \in DOMAIN text |-> i], LAMBDA i : i \in S)
    IN  [j \in DOMAIN idx |-> text[idx[j]]]

GeoTokens ==
    {Word, IdTok("C100-A"), IdTok("G200-B"), IdTok("C500-E"),
     EdTok(<<<<"g", "G200-B">>, <<"p", "C100-A", "C300-C">>>>),
     EdTok(<<<<"pg[0][g]", "G400-D">>, <<"p", "C300-C">>, <<"pg[0][g]", "G400-D">>,
             <<"q", "lorem", "G600-F">>>>),
     EdTok(<<<<"p", "lorem", "C500-E">>, <<"q", "G200-B">>>>)}

SeqsUpTo(S, n) == UNION {[1..k -> S] : k \in 0..n}

\* FullText with tokens left out
Haystacks == {Pick(FullText, S) : S \in {T \in SUBSET DOMAIN FullText : Cardinality(T) <= MaxTokens}}

GeoHaystacks == SeqsUpTo(GeoTokens, MaxGeoTokens)

DefaultEnv ==
    [GIBS_LAYER |-> None, GIBS_DATE |-> None, GIBS_SIZE |-> <<"2048", "1024">>,
     GIBS_SECONDARY_BBOX |-> None, GIBS_SECONDARY_SIZE |-> <<"1536", "1024">>]

\* the module-level names before the first statement that assigns them
Start(h, e, at) ==
    /\ pc = at
    /\ trace = ""
    /\ exit_code = -1
    /\ env = e
    /\ haystack = h
    /\ sc_match = <<>>
    /\ odesli_url = None
    /\ platforms = <<>>
    /\ nasa_match = <<>>
    /\ nasa_card = NoCard
    /\ yt_match = <<>>
    /\ cmr_ids_from_urls = <<>>
    /\ cmr_ids_in_text = <<>>
    /\ cmr_all_ids = <<>>
    /\ cmr_i = 0
    /\ earthdata_blocks = <<>>
    /\ lookups = <<>>
    /\ blocks = <<>>
    /\ region = ""
    /\ layers = <<>>
    /\ date_candidates = <<>>
    /\ li = 0
    /\ di = 0
    /\ r = NoResponse
    /\ calls = <<>>
    /\ visited = <<>>
    /\ ret = <<>>
    /\ gibs_url = <<>>
    /\ gibs_label = <<>>
    /\ gibs_url2 = <<>>
    /\ gibs_label2 = <<>>
    /\ posts = 0
    /\ resp = None

\* the imagery configurations of the whole-script specification: layer and
\* date are overridden, so that a call probes one pair
ScriptEnvs == {e \in Envs : e.GIBS_LAYER # None /\ e.GIBS_DATE # None}

\* the whole script, from line 224 on
Init == \E h \in Haystacks, e \in ScriptEnvs : Start(h, e, "odesli")

Next ==
    \/ Odesli
    \/ NasaCard
    \/ YouTube
    \/ CmrExtract
    \/ CmrLookup
    \/ BuildBlocks
    \/ WorldCall
    \/ Head_
    \/ Get_
    \/ WorldBlocks
    \/ RegionalCall
    \/ RegionalBlocks
    \/ Close
    \/ Post

Spec == Init /\ [][Next]_vars

\* the script up to the enrichment blocks (lines 224-386), over haystacks
\* rich in geo-catalog identifiers
InitCmr == \E h \in GeoHaystacks : Start(h, DefaultEnv, "odesli")

NextCmr ==
    \/ Odesli
    \/ NasaCard
    \/ YouTube
    \/ CmrExtract
    \/ CmrLookup
    \/ BuildBlocks

SpecCmr == InitCmr /\ [][NextCmr]_vars

\* the whole script on text without links, over every imagery configuration
InitImagery == \E h \in SeqsUpTo({Word}, MaxTokens), e \in Envs : Start(h, e, "odesli")

NextImagery ==
    \/ Odesli
    \/ NasaCard
    \/ YouTube
    \/ CmrExtract
    \/ BuildBlocks
    \/ WorldCall
    \/ Head_
    \/ Get_
    \/ WorldBlocks
    \/ RegionalCall
    \/ RegionalBlocks
    \/ Close
    \/ Post

SpecImagery == InitImagery /\ [][NextImagery]_vars

\* ================================================================= claims
\* the payload is assembled: line 424 has run
Assembled == pc \in {"post", "done"} \/ trace = "resp.get"

\* the process has ended
Terminated == pc \in {"done", "crashed"}

IsDivider(b) == b.grp = "divider"

NoAdjacentDividers(bs) ==
    \A i \in 1..(Len(bs) - 1) : ~(IsDivider(bs[i]) /\ IsDivider(bs[i + 1]))

Count(bs, g) == Cardinality({i \in DOMAIN bs : bs[i].grp = g})

\* none of the four detectors matches anything in the haystack
NoLinks == \A i \in DOMAIN haystack : haystack[i].k \notin {"sc", "nasa", "yt", "ed", "id"}

EnrichmentGroups == {"media", "platforms", "nasa", "youtube", "earthdata"}

\* the blocks of one region's imagery, if it was resolved
ImageryOf(bs, reg) == SelectSeq(bs, LAMBDA b : b.grp = reg)

\* C1 (as claimed): for a haystack without any recognizable link the payload
\* consists of exactly the header section and the closing section, with no
\* enrichment section and no duplicated divider.
C1_OnlyHeaderAndClosing ==
    (NoLinks /\ Assembled) =>
        /\ SelectSeq(blocks, LAMBDA b : ~IsDivider(b)) = <<HeaderBlock, ClosingBlock>>
        /\ NoAdjacentDividers(blocks)

\* C1 (amended): for a haystack without any recognizable link the payload has
\* no enrichment section and no two adjacent dividers; besides the header and
\* the closing section it holds only the image and caption of each region
\* whose imagery was resolved, and it is exactly header, divider, closing when
\* no imagery was resolved.
C1_NoEnrichmentWithoutLinks ==
    (NoLinks /\ Assembled) =>
        /\ \A i \in DOMAIN blocks : blocks[i].grp \notin EnrichmentGroups
        /\ NoAdjacentDividers(blocks)
        /\ blocks[1] = HeaderBlock
        /\ blocks[Len(blocks)] = ClosingBlock
        /\ [i \in DOMAIN blocks |-> <<blocks[i].grp, blocks[i].type>>] =
               <<<<"header", "section">>>>
               \o (IF gibs_url = <<>> THEN <<>>
                   ELSE <<<<"divider", "divider">>, <<"world", "image">>, <<"world", "context">>>>)
               \o (IF gibs_url2 = <<>> THEN <<>>
                   ELSE <<<<"divider", "divider">>, <<"regional", "image">>,
                          <<"regional", "context">>>>)
               \o <<<<"divider", "divider">>, <<"closing", "section">>>>
        /\ (gibs_url = <<>> /\ gibs_url2 = <<>>) =>
               blocks = <<HeaderBlock, Divider, ClosingBlock>>

\* C1 witness: link-free, non-empty text, assembled, with world imagery
C1_Witness ==
    /\ NoLinks
    /\ haystack # <<>>
    /\ Assembled
    /\ gibs_url # <<>>
    /\ Len(blocks) = 6

\* ----------------------------------------------------------------------
\* the merge has run
Merged == pc \in {"cmr_loop", "build", "gibs_world"}

NoDuplicates(s) == \A i, j \in DOMAIN s : i # j => s[i] # s[j]

\* where x first occurs in s
FirstPos(s, x) == CHOOSE p \in DOMAIN s : s[p] = x /\ \A q \in 1..(p - 1) : s[q] # x

\* C2: the merged identifier list holds exactly the identifiers taken from
\* the catalog-search URLs followed by those matched in the text, each once,
\* in the order of their first occurrence in that concatenation.
C2_MergedIdsFirstOccurrenceOrder ==
    Merged =>
        LET cat == cmr_ids_from_urls \o cmr_ids_in_text IN
        /\ NoDuplicates(cmr_all_ids)
        /\ Range(cmr_all_ids) = Range(cat)
        /\ \A i, j \in DOMAIN cmr_all_ids :
             i < j => FirstPos(cat, cmr_all_ids[i]) < FirstPos(cat, cmr_all_ids[j])

\* C2 witness: identifiers from a URL and from the text, some repeated, and
\* the URL order differing from the textual order
C2_Witness ==
    /\ Merged
    /\ Len(cmr_ids_from_urls) >= 2
    /\ Len(cmr_all_ids) >= 4
    /\ Len(cmr_ids_from_urls \o cmr_ids_in_text) > Len(cmr_all_ids)
    /\ cmr_ids_in_text[1] # cmr_ids_from_urls[1]
    /\ cmr_ids_in_text[1] \in Range(cmr_ids_from_urls)

\* ----------------------------------------------------------------------
\* identifier a card was built for
CardId(b) == SubSeq(b.ref, 1, Len(b.ref) - 1)

CardIds(bs) ==
    LET cards == SelectSeq(bs, LAMBDA b : b.grp = "earthdata")
    IN  [i \in DOMAIN cards |-> CardId(cards[i])]

FoundIds(log) ==
    LET found == SelectSeq(log, LAMBDA c : c.ok)
    IN  [i \in DOMAIN found |-> found[i].id]

\* line 300
CmrCap == 5

\* C3: whatever lookups fail, every identifier being enriched is looked up,
\* and the payload carries a card for exactly the identifiers whose lookup
\* found a record, in the order of the merged identifier list.
C3_FailureIsolation ==
    (pc = "gibs_world") =>
        /\ Len(lookups) = Min(CmrCap, Len(cmr_all_ids))
        /\ \A i \in DOMAIN lookups : lookups[i].id = cmr_all_ids[i]
        /\ CardIds(blocks) = FoundIds(lookups)

\* C3 witness: a failed lookup between two that succeed, and one failing last
C3_Witness ==
    /\ pc = "gibs_world"
    /\ Len(lookups) >= 4
    /\ lookups[1].ok /\ ~lookups[2].ok /\ lookups[3].ok /\ ~lookups[4].ok
    /\ Len(CardIds(blocks)) = 2

\* ----------------------------------------------------------------------
\* try_gibs_image is running or has just returned
InResolver == pc \in {"head", "get", "world_blocks", "regional_blocks"}

Returned == pc \in {"world_blocks", "regional_blocks"}

\* the k-th pair of the grid, layers outermost
GridPair(k) ==
    <<layers[((k - 1) \div Len(date_candidates)) + 1],
      date_candidates[((k - 1) % Len(date_candidates)) + 1]>>

GridSize == Len(layers) * Len(date_candidates)

IsImage(x) == x.status = "ok" /\ x.image

\* C4: the pairs are visited in layer-major order, dates from the most recent
\* on; no response that is an image is ever followed by another probe; a
\* result names exactly the last pair visited, whose response was an image;
\* and (None, None) is returned only with the whole grid visited.
C4_ShortCircuit ==
    InResolver =>
        /\ env.GIBS_DATE = None => date_candidates = <<"today", "today-1", "today-2">>
        /\ Len(visited) <= GridSize
        /\ \A k \in DOMAIN visited : visited[k] = GridPair(k)
        /\ (pc \in {"head", "get"}) => \A c \in DOMAIN calls : ~IsImage(calls[c])
        /\ (Returned /\ ret # <<>>) =>
             LET last == visited[Len(visited)] IN
             /\ IsImage(calls[Len(calls)])
             /\ ret[1] = <<last[1], last[2], BBoxOf(region), SizeOf(region)[1], SizeOf(region)[2]>>
             /\ ret[2] = <<last[1], "(", last[2], ")">>
        /\ (Returned /\ ret = <<>>) =>
             /\ Len(visited) = GridSize
             /\ ~IsImage(calls[Len(calls)])

\* C4 witness: the default grid, the fifth pair accepted
C4_Witness ==
    /\ Returned
    /\ GridSize = 12
    /\ Len(visited) = 5
    /\ ret # <<>>

\* ----------------------------------------------------------------------
\* the resolver is done with the pair whose exchanges are in calls
PairFinished == calls # <<>> /\ pc \in {"head", "world_blocks", "regional_blocks"}

CallShape ==
    /\ Len(calls) <= 2
    /\ Len(calls) >= 1 => calls[1].method = "HEAD"
    /\ Len(calls) = 2 => calls[2].method = "GET"

\* C8 (as claimed): HEAD first, each call at most once per pair, acceptance
\* only on a last response that is an image, and a GET before the resolver
\* moves on whenever the HEAD did not yield a success status with an image
\* content type.
C8_GetAfterEveryInconclusiveHead ==
    InResolver =>
        /\ CallShape
        /\ (Returned /\ ret # <<>>) => IsImage(calls[Len(calls)])
        /\ (PairFinished /\ ~IsImage(calls[1])) => Len(calls) = 2

\* C8 (amended): as claimed, except that the GET follows only a HEAD that
\* returned a response without a success status and image content type; when
\* the HEAD itself raises, the pair is abandoned without a GET.
C8_ProbeProtocol ==
    InResolver =>
        /\ CallShape
        /\ (Returned /\ ret # <<>>) => IsImage(calls[Len(calls)])
        /\ (Returned /\ ret = <<>>) => ~IsImage(calls[Len(calls)])
        /\ Len(calls) = 2 => (calls[1].status # "raise" /\ ~IsImage(calls[1]))
        /\ (PairFinished /\ calls[1].status # "raise" /\ ~IsImage(calls[1])) => Len(calls) = 2
        /\ (PairFinished /\ calls[1].status = "raise") => Len(calls) = 1

\* C8 witness: a pair given up after HEAD answered 200 without an image and
\* GET answered with an error status
C8_Witness ==
    /\ pc = "head"
    /\ Len(calls) = 2
    /\ calls[1].status = "ok" /\ ~calls[1].image
    /\ calls[2].status = "fail"

\* ----------------------------------------------------------------------
\* C9: at most 5 concept lookups are made, for the first min(5, n)
\* identifiers of the merged list in list order, each once; at most 5 cards
\* result; an identifier at position 6 or later is never looked up.
C9_EnrichmentCap ==
    /\ Len(lookups) <= CmrCap
    /\ Len(lookups) <= Len(cmr_all_ids)
    /\ \A i \in DOMAIN lookups : lookups[i].id = cmr_all_ids[i]
    /\ NoDuplicates([i \in DOMAIN lookups |-> lookups[i].id])
    /\ \A k \in (CmrCap + 1)..Len(cmr_all_ids) :
         \A i \in DOMAIN lookups : lookups[i].id # cmr_all_ids[k]
    /\ Len(earthdata_blocks) <= Len(lookups)
    /\ Count(blocks, "earthdata") <= CmrCap
    /\ (pc \in {"build", "gibs_world"}) => Len(lookups) = Min(CmrCap, Len(cmr_all_ids))

\* C9 witness: more than 5 identifiers, the first five looked up and found
C9_Witness ==
    /\ pc = "gibs_world"
    /\ Len(cmr_all_ids) > CmrCap
    /\ Len(lookups) = CmrCap
    /\ Count(blocks, "earthdata") = CmrCap

\* ----------------------------------------------------------------------
\* C5 (as claimed): no outcome of the link-resolution, image-search or
\* concept-lookup call aborts the run: the script never ends in one of the
\* enrichment sections, and once the payload is assembled a family whose
\* call yielded nothing has no card in it.
C5_EnrichmentNeverAborts ==
    /\ trace \notin {"odesli", "nasa", "build_earthdata_card"}
    /\ Assembled => (Count(blocks, "nasa") = 1 <=> nasa_card.some)
    /\ Assembled => CardIds(blocks) = FoundIds(lookups)

\* C6 (as claimed): every run posts the payload exactly once, after all
\* enrichment and imagery steps, and exits non-zero exactly when the
\* response's "ok" is falsy or missing.
C6_DeliveredOnceAndExitStatus ==
    /\ posts <= 1
    /\ posts = 1 => (Assembled /\ pc \in {"done", "crashed"})
    /\ Terminated =>
         /\ posts = 1
         /\ (exit_code # 0) <=> (resp # "ok:true")
         /\ exit_code \in {0, 1}

\* ----------------------------------------------------------------------
\* the group a block belongs to, and the place of the group in a payload
GroupOf(b) == IF b.grp = "platforms" THEN "media" ELSE b.grp

Rank(b) ==
    CASE GroupOf(b) = "header" -> 0
      [] GroupOf(b) = "media" -> 1
      [] GroupOf(b) = "nasa" -> 2
      [] GroupOf(b) = "youtube" -> 3
      [] GroupOf(b) = "earthdata" -> 4
      [] GroupOf(b) = "world" -> 5
      [] GroupOf(b) = "regional" -> 6
      [] GroupOf(b) = "closing" -> 7

\* C7: header first, closing last; the groups in the fixed order; exactly
\* one divider between two consecutive groups and none elsewhere; a group is
\* in the payload exactly when it is present.
C7_SectionOrdering ==
    Assembled =>
        /\ blocks[1] = HeaderBlock
        /\ blocks[Len(blocks)] = ClosingBlock
        /\ NoAdjacentDividers(blocks)
        /\ \A i \in 1..(Len(blocks) - 1) :
             (~IsDivider(blocks[i]) /\ ~IsDivider(blocks[i + 1])) =>
                 GroupOf(blocks[i]) = GroupOf(blocks[i + 1])
        /\ \A i \in 2..(Len(blocks) - 1) :
             IsDivider(blocks[i]) => Rank(blocks[i - 1]) < Rank(blocks[i + 1])
        /\ Count(blocks, "header") = 1 /\ Count(blocks, "closing") = 1
        /\ Count(blocks, "media") = (IF sc_match # <<>> THEN 1 ELSE 0)
        /\ Count(blocks, "platforms") = (IF sc_match # <<>> /\ platforms # <<>> THEN 1 ELSE 0)
        /\ Count(blocks, "nasa") = (IF nasa_card.some THEN 1 ELSE 0)
        /\ Count(blocks, "youtube") = (IF yt_match # <<>> THEN 1 ELSE 0)
        /\ SelectSeq(blocks, LAMBDA b : b.grp = "earthdata") = earthdata_blocks
        /\ [i \in 1..Len(ImageryOf(blocks, "world")) |-> ImageryOf(blocks, "world")[i].type]
             = (IF gibs_url # <<>> THEN <<"image", "context">> ELSE <<>>)
        /\ [i \in 1..Len(ImageryOf(blocks, "regional")) |-> ImageryOf(blocks, "regional")[i].type]
             = (IF gibs_url2 # <<>> THEN <<"image", "context">> ELSE <<>>)
        /\ \A i \in 1..(Len(blocks) - 1) :
             blocks[i].grp = "media" =>
                 (blocks[i + 1].grp = "platforms" <=> platforms # <<>>)

\* C7 witness: every group present
C7_Witness ==
    /\ Assembled
    /\ Count(blocks, "media") = 1 /\ Count(blocks, "platforms") = 1
    /\ Count(blocks, "nasa") = 1 /\ Count(blocks, "youtube") = 1
    /\ Count(blocks, "earthdata") = 1
    /\ Count(blocks, "world") = 2 /\ Count(blocks, "regional") = 2

\* ----------------------------------------------------------------------
\* the call for the world region has returned
WorldReturned ==
    pc \in {"gibs_regional", "close", "post", "done"} \/ region = "regional"
        \/ trace = "resp.get"

\* the call for the regional region has returned
RegionalReturned ==
    region = "regional" /\ (pc \in {"close", "post", "done"} \/ trace = "resp.get")

\* C10 (as claimed): when every pair fails for a region, the payload has
\* neither image nor caption nor divider for it, the other region's result
\* stands, the regional resolver runs only with a regional bounding box, and
\* the delivery POST still takes place.
C10_ExhaustionNonFatal ==
    /\ region = "regional" => env.GIBS_SECONDARY_BBOX # None
    /\ (WorldReturned /\ gibs_url = <<>>) => Count(blocks, "world") = 0
    /\ (RegionalReturned /\ gibs_url2 = <<>>) => Count(blocks, "regional") = 0
    /\ (RegionalReturned /\ gibs_url # <<>>) => Count(blocks, "world") = 2
    /\ NoAdjacentDividers(blocks)
    /\ (Terminated /\ ((WorldReturned /\ gibs_url = <<>>)
                        \/ (RegionalReturned /\ gibs_url2 = <<>>))) => posts = 1

====
